---- MODULE Spec2Model ----
(***************************************************************************)
(* A model of the parallel ranged downloader of aliyunpan: the Downloader  *)
(* facade (Execute, Pause, Resume, Cancel, Failed), its range planning     *)
(* (SelectParallel, SelectBlockSizeAndInitRangeGen), the resolution of the *)
(* download URLs of the main and auxiliary accounts, and the binding of    *)
(* workers to URLs.  The Monitor, the range generator and the checkpoint   *)
(* store live in other files of the repository and are modelled from the   *)
(* written specification.                                                  *)
(***************************************************************************)
EXTENDS Integers, Sequences, FiniteSets, TLC

\* ------------------------------------------------------------------ bounds
\* The sessions of Spec: file sizes, preferred parallelism, auxiliary accounts
\* and the calls of Pause, Resume, Cancel and Failed during one session.
MaxFileSize == 3
MaxSliceParallel == 2
MaxSubClients == 1
MaxUserCalls == 2
\* The plans of SpecPlan: file sizes, preferred parallelism, block size hints.
PlanMaxFileSize == 6
PlanMaxParallel == 4
MaxBlockSize == 3
MaxCacheSize == 2
\* The probes of SpecProbe: auxiliary URLs with any answer, and auxiliary
\* URLs of which only the first may answer well.
MaxLoadBalansers == 2
MaxProbes == 11
\* The number of auxiliary accounts of a direct call of the file lookup.
MaxUrlSubClients == 2
\* The number of paths of a `sharew set`, of records of a share list.
MaxSharePaths == 2
MaxShareRecords == 2

\* --------------------------------------------------------- program constants
MinParallelSize == 2
MaxParallelWorkerCount == 3
\* waitgroup.NewWaitGroup(10) in checkLoadBalancers
ProbeFanOut == 10

\* ------------------------------------------------------------------ values
RangeGenModes == {"Default", "BlockSize", "Unknown"}
FileSources == {"FileSource", "AlbumSource"}

NoErr == "nil"
ErrUnknownRangeGenMode == "ErrUnknownRangeGenMode"
ErrFileDownloadForbidden == "ErrFileDownloadForbidden"
ErrNoWokers == "ErrNoWokers"
ErrInitInstanceState == "ErrInitInstanceState"
ErrApi == "ApiError"
ErrUserInfo == "UserInfoError"
ErrCancelled == "ErrCancelled"

Min(a, b) == IF a < b THEN a ELSE b

\* ------------------------------------------------- transfer.RangeListGen
NoGen == [mode |-> "None", total |-> 0, begin |-> 0, count |-> 0,
          parallel |-> 0, blockSize |-> 0]
NoRange == [Begin |-> -1, End |-> -1]

NewRangeListGenDefault(totalSize, begin, count, parallel) ==
    [mode |-> "Default", total |-> totalSize, begin |-> begin, count |-> count,
     parallel |-> parallel, blockSize |-> 0]

NewRangeListGenBlockSize(totalSize, begin, blockSize) ==
    [mode |-> "BlockSize", total |-> totalSize, begin |-> begin, count |-> 0,
     parallel |-> 0, blockSize |-> blockSize]

LoadBlockSize(gen) == gen.blockSize

\* One call of gen.GenRange(): the next range (NoRange when the generator is
\* exhausted) and the generator after the call.
GenRange(gen) ==
    IF gen.mode = "Default"
    THEN LET par == IF gen.parallel < 1 THEN 1 ELSE gen.parallel
             bs  == gen.total \div par
             end == IF gen.count = par - 1 THEN gen.total ELSE gen.begin + bs
             g1  == [gen EXCEPT !.parallel = par, !.blockSize = bs]
         IN  IF gen.begin >= gen.total
             THEN [r |-> NoRange, gen |-> g1]
             ELSE [r |-> [Begin |-> gen.begin, End |-> end],
                   gen |-> [g1 EXCEPT !.begin = end, !.count = gen.count + 1]]
    ELSE LET bs  == IF gen.blockSize <= 0 THEN 1 ELSE gen.blockSize
             e0  == gen.begin + bs
             end == IF e0 >= gen.total THEN gen.total ELSE e0
             g1  == [gen EXCEPT !.blockSize = bs]
         IN  IF gen.begin >= gen.total
             THEN [r |-> NoRange, gen |-> g1]
             ELSE [r |-> [Begin |-> gen.begin, End |-> end],
                   gen |-> [g1 EXCEPT !.begin = end, !.count = gen.count + 1]]

\* ------------------------------------------------- Downloader: planning
\* A slip of SelectParallel: the comparison with totalSize / MinParallelSize
\* made with >= for >.  C13 must fail under it.
SelectParallelOffByOne(prefParallel, maxParallel, totalSize, instanceRangeList) ==
    LET isRange == Len(instanceRangeList) > 0
        p == IF prefParallel > 0 THEN prefParallel
             ELSE IF isRange THEN Len(instanceRangeList)
             ELSE IF maxParallel >= totalSize \div MinParallelSize
                  THEN (totalSize \div MinParallelSize) + 1
                  ELSE maxParallel
    IN  IF p < 1 THEN 1 ELSE p

\* SelectParallel(prefParallel, maxParallel, totalSize, instanceRangeList)
SelectParallel(prefParallel, maxParallel, totalSize, instanceRangeList) ==
    LET isRange == Len(instanceRangeList) > 0
        p == IF prefParallel > 0 THEN prefParallel
             ELSE IF isRange THEN Len(instanceRangeList)
             ELSE IF maxParallel > totalSize \div MinParallelSize
                  THEN (totalSize \div MinParallelSize) + 1
                  ELSE maxParallel
    IN  IF p < 1 THEN 1 ELSE p

\* A slip of SelectBlockSizeAndInitRangeGen: the "+ 1" of b2 left out.  C14
\* must fail under it.
SelectBlockSizeNoPlusOne(status, parallel, mode, confBlockSize) ==
    IF parallel = 1
    THEN [blockSize |-> -1, initErr |-> NoErr, status |-> status]
    ELSE IF status.gen.mode = "None"
    THEN IF mode = "Default"
         THEN LET gen == NewRangeListGenDefault(status.TotalSize, 0, 0, parallel)
              IN  [blockSize |-> LoadBlockSize(gen), initErr |-> NoErr,
                   status |-> [status EXCEPT !.gen = gen]]
         ELSE IF mode = "BlockSize"
         THEN LET b2 == status.TotalSize \div parallel
                  bs == IF b2 > confBlockSize THEN confBlockSize ELSE b2
              IN  [blockSize |-> bs, initErr |-> NoErr,
                   status |-> [status EXCEPT
                       !.gen = NewRangeListGenBlockSize(status.TotalSize, 0, bs)]]
         ELSE [blockSize |-> 0, initErr |-> ErrUnknownRangeGenMode,
               status |-> status]
    ELSE [blockSize |-> LoadBlockSize(status.gen), initErr |-> NoErr,
          status |-> status]

\* SelectBlockSizeAndInitRangeGen(status, parallel) for config.Mode = mode and
\* config.BlockSize = confBlockSize: the block size, the error, and the status
\* with its range generator set.
SelectBlockSizeAndInitRangeGen(status, parallel, mode, confBlockSize) ==
    IF parallel = 1
    THEN [blockSize |-> -1, initErr |-> NoErr, status |-> status]
    ELSE IF status.gen.mode = "None"
    THEN IF mode = "Default"
         THEN LET gen == NewRangeListGenDefault(status.TotalSize, 0, 0, parallel)
              IN  [blockSize |-> LoadBlockSize(gen), initErr |-> NoErr,
                   status |-> [status EXCEPT !.gen = gen]]
         ELSE IF mode = "BlockSize"
         THEN LET b2 == (status.TotalSize \div parallel) + 1
                  bs == IF b2 > confBlockSize THEN confBlockSize ELSE b2
              IN  [blockSize |-> bs, initErr |-> NoErr,
                   status |-> [status EXCEPT
                       !.gen = NewRangeListGenBlockSize(status.TotalSize, 0, bs)]]
         ELSE [blockSize |-> 0, initErr |-> ErrUnknownRangeGenMode,
               status |-> status]
    ELSE [blockSize |-> LoadBlockSize(status.gen), initErr |-> NoErr,
          status |-> status]

\* A slip of SelectCacheSize: the block size taken whenever it is positive.
\* C17 must fail under it.
SelectCacheSizeAlwaysBlock(confCacheSize, blkSize) ==
    IF blkSize > 0 THEN blkSize ELSE confCacheSize

\* SelectCacheSize(confCacheSize, blockSize)
SelectCacheSize(confCacheSize, blkSize) ==
    IF blkSize > 0 /\ confCacheSize > blkSize THEN blkSize ELSE confCacheSize

\* The loop of Execute that fills bii.Ranges from the generator: at most n
\* calls of GenRange, stopping at the first nil range.
RECURSIVE GenRangeLoop(_, _, _)
GenRangeLoop(gen, n, acc) ==
    IF n = 0 THEN [ranges |-> acc, gen |-> gen]
    ELSE LET g == GenRange(gen)
         IN  IF g.r = NoRange THEN [ranges |-> acc, gen |-> g.gen]
             ELSE GenRangeLoop(g.gen, n - 1, Append(acc, g.r))

\* A slip of InitRanges: the loop over the generator one call short.  C10
\* must fail under it.
InitRangesShortLoop(biiRanges, status, parallel, fileSz) ==
    IF Len(biiRanges) > 0
    THEN [ranges |-> biiRanges, gen |-> status.gen]
    ELSE IF parallel = 1
    THEN [ranges |-> <<[Begin |-> 0, End |-> fileSz]>>, gen |-> status.gen]
    ELSE GenRangeLoop(status.gen, parallel - 1, <<>>)

\* The range list Execute gives to the workers (bii.Ranges) and the status
\* afterwards.
InitRanges(biiRanges, status, parallel, fileSz) ==
    IF Len(biiRanges) > 0
    THEN [ranges |-> biiRanges, gen |-> status.gen]
    ELSE IF parallel = 1
    THEN [ranges |-> <<[Begin |-> 0, End |-> fileSz]>>, gen |-> status.gen]
    ELSE GenRangeLoop(status.gen, parallel, <<>>)

\* ------------------------------------------------- URL pool (load balancers)
\* LoadBalancerResponseList.SequentialGet(): the entries in admission order,
\* cyclically; nothing when the list is empty.  index is the number of calls
\* made so far.
NoLoadBalancer == -1
SequentialGet(list, index) ==
    IF Len(list) = 0 THEN NoLoadBalancer ELSE list[(index % Len(list)) + 1]

\* ------------------------------------------------- URL resolution
\* What the provider of an account answers to GetFileDownloadUrl.
UrlAnswers == {"ApiErr", "Nil", "Empty", "Illegal", "Ok"}
\* What the main account answers to GetUserInfo.
UserInfoAnswers == {"Err", "NilInfo", "Ok"}
\* What an auxiliary account answers to GetUserInfo, FileInfoByPath and
\* GetFileDownloadUrl; a lookup the loop does not reach is "NotAsked".
NotAsked == "NotAsked"
SubAnswers ==
    {[info |-> "Err", file |-> NotAsked, url |-> NotAsked]}
    \cup [info : {"NilInfo", "Ok"}, file : {"Err", "Nil"}, url : {NotAsked}]
    \cup [info : {"NilInfo", "Ok"}, file : {"Ok"}, url : UrlAnswers]
\* mainDriveName: which drive of the main account der.driveId is.
MainDriveNames == {"File", "Resource", ""}
\* What the provider answers to ShareAlbumGetFileDownloadUrl: an API error, a
\* nil entity without error, or an entity with its URL fields ("" is empty).
AlbumUrls == {"", "illegal", "url"}
AlbumAnswers ==
    [kind : {"ApiErr", "Nil"}, hasStreams : {FALSE}, Mov : {""}, Heic : {""},
     Jpeg : {""}, Url : {""}]
    \cup
    [kind : {"Durl"}, hasStreams : BOOLEAN, Mov : {"", "url"},
     Heic : {"", "url"}, Jpeg : {"", "url"}, Url : AlbumUrls]

\* An entry of the log of one Execute call: an event fired by cmdutil.Trigger,
\* or the removal of the checkpoint.
EvExecute == "Execute"
EvSuccess == "Success"
EvFail == "Fail"
EvCancel == "Cancel"
EvFinish == "Finish"
EvPause == "Pause"
EvResume == "Resume"
RemoveInstanceState == "removeInstanceState"

\* The result of a URL lookup: the list (accounts: 0 is the main account, i the
\* i-th auxiliary account), whether the list is nil, the error, what the lookup
\* fired, and whether it ended in a runtime panic.
UrlResult(urls, isNil, err, fired, panic) ==
    [urls |-> urls, isNil |-> isNil, err |-> err, fired |-> fired,
     panic |-> panic]

\* Whether the loop over the auxiliary accounts appends an entry for the
\* account that answered sub: no error from GetUserInfo, a file, a legal URL.
SubAppended(sub) == sub.info # "Err" /\ sub.file = "Ok" /\ sub.url = "Ok"

\* userInfo.FileDriveId / userInfo.ResourceDriveId of a nil userInfo: the loop
\* tests err1 only, and reads the field when mainDriveName is not empty.
SubPanics(subs, mainDriveName) ==
    /\ mainDriveName # ""
    /\ \E i \in 1..Len(subs) : subs[i].info = "NilInfo"

\* The auxiliary accounts, in order, the loop appends an entry for.
RECURSIVE SubUrls(_, _)
SubUrls(subs, i) ==
    IF i > Len(subs) THEN <<>>
    ELSE (IF SubAppended(subs[i]) THEN <<i>> ELSE <<>>) \o SubUrls(subs, i + 1)

\* getFileSourceDownloadUrl: main is the main account's answer for the URL,
\* info its answer for the user info, mainDriveName the drive der.driveId is,
\* subs the auxiliary accounts' answers.
GetFileSourceDownloadUrl(main, info, mainDriveName, subs) ==
    IF main = "ApiErr"
    THEN UrlResult(<<>>, TRUE, ErrApi, <<EvCancel>>, FALSE)
    ELSE IF main \in {"Nil", "Empty", "Illegal"}
    THEN UrlResult(<<>>, TRUE, ErrFileDownloadForbidden,
                   <<EvCancel, RemoveInstanceState, EvFail>>, FALSE)
    ELSE IF info = "Err"
    THEN UrlResult(<<>>, TRUE, ErrUserInfo, <<>>, FALSE)
    ELSE IF info = "NilInfo"
    THEN UrlResult(<<>>, TRUE, NoErr, <<>>, FALSE)
    ELSE IF SubPanics(subs, mainDriveName)
    THEN UrlResult(<<>>, TRUE, NoErr, <<>>, TRUE)
    ELSE UrlResult(<<0>> \o SubUrls(subs, 1), FALSE, NoErr, <<>>, FALSE)

\* getAlbumSourceDownloadUrl: durl is the provider's answer, ext the file's
\* extension in lower case.
GetAlbumSourceDownloadUrl(durl, ext) ==
    IF durl.kind = "ApiErr"
    THEN UrlResult(<<>>, TRUE, ErrApi, <<EvCancel>>, FALSE)
    ELSE IF durl.kind = "Nil"
    THEN UrlResult(<<>>, TRUE, NoErr, <<>>, TRUE)   \* durl.StreamsUrl of nil
    ELSE LET realUrl ==
                 IF durl.hasStreams
                 THEN IF ext = "mov"
                      THEN durl.Mov
                      ELSE IF durl.Heic # "" THEN durl.Heic ELSE durl.Jpeg
                 ELSE durl.Url
         IN  IF realUrl = ""
             THEN UrlResult(<<>>, TRUE, ErrFileDownloadForbidden,
                            <<EvCancel, RemoveInstanceState, EvFail>>, FALSE)
             ELSE UrlResult(<<0>>, FALSE, NoErr, <<>>, FALSE)

\* ------------------------------------------------- worker binding
\* factorNum := len(bii.Ranges) / len(panClientFileUrl); a zero divisor is a
\* runtime panic, modelled by FactorDefined.
FactorNum(rangeCount, urlCount) == rangeCount \div urlCount

\* Whether panClientFileUrl[int(k/factorNum)] evaluates without a panic.
UrlIndexDefined(k, rangeCount, urlCount) ==
    /\ urlCount > 0
    /\ FactorNum(rangeCount, urlCount) > 0
    /\ k \div FactorNum(rangeCount, urlCount) < urlCount

\* The index of the URL entry worker k is bound to (0-based).
UrlIndex(k, rangeCount, urlCount) == k \div FactorNum(rangeCount, urlCount)

\* panClientUrl.FileUrl: the download URL the provider gave for an account's
\* copy of the file (durl.Url, durl2.Url).
FileUrl(account) == [of |-> "FileUrl", id |-> account]

\* LoadBalancerResponse.URL of a pool entry: the literal "der.durl" of the
\* primary entry 0, the probed URL of entry i.
LoadBalancerUrl(entry) == [of |-> "URL", id |-> entry]

\* writeMu = &sync.Mutex{}: the one write mutex of an Execute call.
WriteMu == "writeMu"

\* A slip of NewWorker: a mutex of its own for every worker.  C20 must fail
\* under it.
NewWorkerOwnMutex(k, account, r) ==
    [id |-> k, account |-> account, url |-> FileUrl(account), range |-> r,
     writeMu |-> k]

\* NewWorker and the setters Execute calls on it: the worker of range k,
\* bound to an account's URL, with the session's write mutex.
NewWorker(k, account, r) ==
    [id |-> k, account |-> account, url |-> FileUrl(account), range |-> r,
     writeMu |-> WriteMu]

\* The loop of Execute that creates the workers, from range k on: the workers
\* appended, the number of SequentialGet calls, and whether it panicked.
RECURSIVE NewWorkers(_, _, _, _, _, _)
NewWorkers(k, ranges, urls, pool, calls, acc) ==
    IF k >= Len(ranges) THEN [workers |-> acc, calls |-> calls, panic |-> FALSE]
    ELSE IF ~UrlIndexDefined(k, Len(ranges), Len(urls))
    THEN [workers |-> acc, calls |-> calls, panic |-> TRUE]
    ELSE IF SequentialGet(pool, calls) = NoLoadBalancer
    THEN NewWorkers(k + 1, ranges, urls, pool, calls + 1, acc)
    ELSE NewWorkers(k + 1, ranges, urls, pool, calls + 1,
             Append(acc, NewWorker(k,
                             urls[UrlIndex(k, Len(ranges), Len(urls)) + 1],
                             ranges[k + 1])))

\* ------------------------------------------------- checkpoint store
\* A DownloadInstanceInfo as instanceState.Get() returns it: nil (present is
\* FALSE), or the recorded status (total size, range generator) and ranges.
NoInstance == [present |-> FALSE, hasStatus |-> FALSE, TotalSize |-> 0,
               gen |-> NoGen, Ranges |-> <<>>]

\* The checkpoints a session on a file of size fs may find beside its target.
Checkpoints(fs) ==
    {NoInstance,
     [present |-> TRUE, hasStatus |-> TRUE, TotalSize |-> fs, gen |-> NoGen,
      Ranges |-> <<[Begin |-> 0, End |-> fs]>>]}

\* The range lists a checkpoint of total size ts may record: none, the single
\* range of a one-worker session, or two ranges.
CheckpointRanges(ts) ==
    {<<>>, <<[Begin |-> 0, End |-> ts]>>}
    \cup (IF ts >= 2 THEN {<<[Begin |-> 0, End |-> 1], [Begin |-> 1, End |-> ts]>>}
          ELSE {})

\* The range generators a checkpoint of total size ts may record: none (a
\* one-worker session), a BlockSize generator that handed out two blocks of
\* one byte, a Default generator of two workers that handed out everything.
RestoredGens(ts) ==
    {NoGen,
     [NewRangeListGenBlockSize(ts, Min(2, ts), 1) EXCEPT !.count = Min(2, ts)],
     [NewRangeListGenDefault(ts, ts, 2, 2) EXCEPT !.blockSize = ts \div 2]}

\* The checkpoints a plan for a file of size fs may find: none, one without a
\* status, or one whose status records the size of the file or another size
\* (the file changed on the server since the checkpoint was written).
PlanCheckpoints(fs) ==
    {NoInstance}
    \cup {[present |-> TRUE, hasStatus |-> FALSE, TotalSize |-> 0,
           gen |-> NoGen, Ranges |-> rl] : rl \in CheckpointRanges(fs)}
    \cup UNION {{[present |-> TRUE, hasStatus |-> TRUE, TotalSize |-> ts,
                  gen |-> g, Ranges |-> rl] :
                      g \in RestoredGens(ts), rl \in CheckpointRanges(ts)} :
                 ts \in {fs, fs + 1}}

ErrDiskWrite == "ErrDiskWrite"
UserOps == {EvPause, EvResume, EvCancel, EvFail}

\* ------------------------------------------------------------------ state
VARIABLES
    pc,                \* where Execute is
    ret,               \* what Execute returned
    events,            \* what the Execute call fired and removed, in order
    userFired,         \* events fired by Pause, Resume, Cancel, Failed: counts
    userCalls,         \* calls of Pause, Resume, Cancel, Failed so far
    cancelEarly,       \* Cancel() was called during Execute, before the monitor ran
    cancelRunning,     \* Cancel() was called while the monitor ran
    fileSize,          \* der.fileInfo.FileSize
    filePanSource,     \* der.filePanSource
    configMode,        \* der.config.Mode
    sliceParallel,     \* der.config.SliceParallel
    configBlockSize,   \* der.config.BlockSize
    configCacheSize,   \* der.config.CacheSize
    subPanClientList,  \* the number of auxiliary accounts
    loadBalansers,     \* der.loadBalansers: the probe answers of the auxiliary URLs
    instanceState,     \* the checkpoint beside the target
    monitor,           \* der.monitor is not nil
    monitorCancelFunc, \* der.monitorCancelFunc is not nil
    ctxCancelled,      \* the monitor's context is cancelled
    paused,            \* the monitor's pause flag
    monitorErr,        \* monitor.Err()
    status,            \* the session's DownloadStatus
    parallel,          \* the effective parallelism
    blockSize,         \* the effective block size
    cacheSize,         \* the size given to cachepool.SetSyncPoolSize
    ranges,            \* bii.Ranges
    lbList,            \* the URL pool
    lbCalls,           \* SequentialGet calls made
    primaryAnswer,     \* what the primary URL lookup answered
    urlRes,            \* what getFileAllClientDownloadUrl returned
    workers,           \* the monitor's workers
    workerDone,        \* the workers that completed their range
    probes,            \* the probe goroutines of checkLoadBalancers
    probeNext,         \* the auxiliary URL the loop of checkLoadBalancers is at
    loadBalancerResponses, \* the slice the probe goroutines append to
    writeMuHeld,       \* the write mutexes that are locked
    writers,           \* the workers that are inside writer.WriteAt
    lastCall,          \* a direct call of a function or command: arguments and result
    onDownloadStatusEvent, \* der.onDownloadStatusEvent is not nil
    completed,         \* der.monitor.completed is signalled
    statusTask,        \* where the goroutine of downloadStatusEvent is
    statusCalledIn     \* the phases of the session the status callback ran in

vars == <<pc, ret, events, userFired, userCalls, cancelEarly, cancelRunning,
          fileSize, filePanSource, configMode, sliceParallel, configBlockSize,
          subPanClientList, loadBalansers, instanceState, monitor,
          monitorCancelFunc, ctxCancelled, paused, monitorErr, status, parallel,
          blockSize, ranges, lbList, lbCalls, primaryAnswer, urlRes, workers,
          workerDone, configCacheSize, cacheSize, probes, probeNext,
          loadBalancerResponses, writeMuHeld, writers, lastCall,
          onDownloadStatusEvent, completed, statusTask, statusCalledIn>>

inputs == <<fileSize, filePanSource, configMode, sliceParallel, configBlockSize,
            subPanClientList, loadBalansers, configCacheSize,
            onDownloadStatusEvent>>
userVars == <<userFired, userCalls, cancelEarly, cancelRunning>>
planVars == <<status, parallel, blockSize, cacheSize, ranges>>
urlVars == <<primaryAnswer, urlRes>>
monitorVars == <<ctxCancelled, paused, monitorErr, workerDone>>
probeVars == <<probes, probeNext, loadBalancerResponses>>
writeVars == <<writeMuHeld, writers>>
statusVars == <<completed, statusTask, statusCalledIn>>

NoUrlRes == UrlResult(<<>>, TRUE, NoErr, <<>>, FALSE)
\* A probe goroutine: not started ("none"), inside durlCheckFunc ("probing"),
\* inside the append of handleLoadBalancer ("append", len being the length it
\* read), or returned ("done").
NoProbe == [pc |-> "none", len |-> 0]
\* No direct call of SelectParallel was made.
NoCall == [prefParallel |-> 0, maxParallel |-> 0, totalSize |-> 0,
           instanceRangeList |-> <<>>, called |-> FALSE, parallel |-> 0]

\* The state after NewDownloader, SetFileInfo and the On... setters, but for
\* the file and the configuration.
InitDownloader ==
    /\ pc = "idle"
    /\ ret = "none"
    /\ events = <<>>
    /\ userFired = [e \in UserOps |-> 0]
    /\ userCalls = 0
    /\ cancelEarly = FALSE
    /\ cancelRunning = FALSE
    /\ monitor = FALSE
    /\ monitorCancelFunc = FALSE
    /\ ctxCancelled = FALSE
    /\ paused = FALSE
    /\ monitorErr = NoErr
    /\ status = [TotalSize |-> 0, gen |-> NoGen]
    /\ parallel = 0
    /\ blockSize = 0
    /\ cacheSize = 0
    /\ ranges = <<>>
    /\ lbList = <<>>
    /\ lbCalls = 0
    /\ primaryAnswer = "none"
    /\ urlRes = NoUrlRes
    /\ workers = <<>>
    /\ workerDone = {}
    /\ probes = [i \in 1..Len(loadBalansers) |-> NoProbe]
    /\ probeNext = 1
    /\ loadBalancerResponses = [arr |-> <<>>, len |-> 0]
    /\ writeMuHeld = {}
    /\ writers = {}
    /\ completed = FALSE
    /\ statusTask = "none"
    /\ statusCalledIn = {}

\* A session: a file, a configuration, a checkpoint that may be left from an
\* earlier session.
InitSession ==
    /\ loadBalansers = <<>>
    /\ InitDownloader
    /\ onDownloadStatusEvent = FALSE
    /\ lastCall = NoCall
    /\ configCacheSize = MaxCacheSize
    /\ fileSize \in 0..MaxFileSize
    /\ filePanSource \in FileSources
    /\ configMode \in RangeGenModes
    /\ sliceParallel \in 0..MaxSliceParallel
    /\ configBlockSize \in {1}
    /\ subPanClientList \in 0..MaxSubClients
    /\ instanceState \in Checkpoints(fileSize)

\* A plan: every file size, preferred parallelism, mode and block size hint,
\* with no checkpoint or one.
InitPlan ==
    /\ loadBalansers = <<>>
    /\ InitDownloader
    /\ onDownloadStatusEvent = FALSE
    /\ lastCall = NoCall
    /\ configCacheSize \in 0..MaxCacheSize
    /\ fileSize \in 0..PlanMaxFileSize
    /\ filePanSource = "FileSource"
    /\ configMode \in RangeGenModes
    /\ sliceParallel \in 0..PlanMaxParallel
    /\ configBlockSize \in 0..MaxBlockSize
    /\ subPanClientList = 0
    /\ instanceState \in PlanCheckpoints(fileSize)

\* ------------------------------------------------- Downloader.Execute
\* What a fired list does to the checkpoint beside the target.
AfterFired(inst, fired) ==
    IF \E i \in 1..Len(fired) : fired[i] = RemoveInstanceState
    THEN NoInstance ELSE inst

\* A slip of ExecuteStart: the zero-length short circuit left out.  C8 must
\* fail under it.
ExecuteStartNoShortCircuit ==
    /\ pc = "idle"
    /\ monitor' = TRUE
    /\ pc' = "checkLoadBalancers"
    /\ UNCHANGED <<events, ret, inputs, probeVars, writeVars, statusVars,
                   lastCall, userVars, planVars, urlVars, monitorVars,
                   instanceState, monitorCancelFunc, lbList, lbCalls, workers>>

\* lazyInit and the zero-length short circuit.
ExecuteStart ==
    /\ pc = "idle"
    /\ monitor' = TRUE
    /\ IF fileSize = 0
       THEN /\ events' = Append(events, EvFinish)
            /\ ret' = NoErr
            /\ pc' = "done"
       ELSE /\ pc' = "checkLoadBalancers"
            /\ UNCHANGED <<events, ret>>
    /\ UNCHANGED <<inputs, probeVars, writeVars, statusVars, lastCall, userVars,
                   planVars, urlVars, monitorVars, instanceState,
                   monitorCancelFunc, lbList, lbCalls, workers>>

\* Whether the probe of an auxiliary URL admits it to the pool.
Admitted(probe) ==
    /\ ~probe.err
    /\ probe.statusClass \notin {4, 5}
    /\ probe.contentLength = fileSize

\* What durlCheckFunc may answer for an auxiliary URL of a file of size fs: a
\* transport error, or a response with a status class and a Content-Length.
TransportError == [err |-> TRUE, statusClass |-> 0, contentLength |-> 0]
ProbeAnswers(fs) ==
    {TransportError}
    \cup [err : {FALSE}, statusClass : 1..5, contentLength : {fs, fs + 1}]

\* checkLoadBalancers when der.loadBalansers is empty: the primary entry is
\* appended, the loop starts no goroutine and wg.Wait() returns at once.
CheckLoadBalancers ==
    /\ pc = "checkLoadBalancers"
    /\ Len(loadBalansers) = 0
    /\ lbList' = <<0>>
    /\ pc' = "initInstanceState"
    /\ UNCHANGED <<ret, events, inputs, probeVars, writeVars, statusVars,
                   lastCall, userVars, planVars, urlVars, monitorVars,
                   instanceState, monitor, monitorCancelFunc, lbCalls, workers>>

\* checkLoadBalancers up to its loop: the slice is made with capacity
\* len(der.loadBalansers) + 1 and the primary entry is appended.
CheckLoadBalancersBegin ==
    /\ pc = "checkLoadBalancers"
    /\ Len(loadBalansers) > 0
    /\ loadBalancerResponses' =
           [arr |-> <<0>> \o [i \in 1..Len(loadBalansers) |-> NoLoadBalancer],
            len |-> 1]
    /\ pc' = "probeLoop"
    /\ UNCHANGED <<ret, events, inputs, probes, probeNext, writeVars,
                   statusVars, lastCall, userVars, planVars, urlVars,
                   monitorVars, instanceState, monitor, monitorCancelFunc,
                   lbList, lbCalls, workers>>

\* The probe goroutines between wg.AddDelta() and wg.Done().
InFlight ==
    Cardinality({i \in 1..Len(probes) : probes[i].pc \in {"probing", "append"}})
\* wg.AddDelta() blocks while the wait group holds its parallel count.
WaitGroupFull == InFlight >= ProbeFanOut
\* wg.Wait() returns when every goroutine added has called Done.
WaitGroupIdle == InFlight = 0

\* A slip of StartProbe: the goroutine started without wg.AddDelta().  C19
\* must fail under it.
StartProbeNoAddDelta ==
    /\ pc = "probeLoop"
    /\ probeNext <= Len(loadBalansers)
    /\ probes' = [probes EXCEPT ![probeNext].pc = "probing"]
    /\ probeNext' = probeNext + 1
    /\ UNCHANGED <<pc, ret, events, inputs, loadBalancerResponses, writeVars,
                   statusVars, lastCall, userVars, planVars, urlVars,
                   monitorVars, instanceState, monitor, monitorCancelFunc,
                   lbList, lbCalls, workers>>

\* One turn of the loop over der.loadBalansers: wg.AddDelta(), then the
\* goroutine of the next auxiliary URL is started.
StartProbe ==
    /\ pc = "probeLoop"
    /\ probeNext <= Len(loadBalansers)
    /\ ~WaitGroupFull
    /\ probes' = [probes EXCEPT ![probeNext].pc = "probing"]
    /\ probeNext' = probeNext + 1
    /\ UNCHANGED <<pc, ret, events, inputs, loadBalancerResponses, writeVars,
                   statusVars, lastCall, userVars, planVars, urlVars,
                   monitorVars, instanceState, monitor, monitorCancelFunc,
                   lbList, lbCalls, workers>>

\* durlCheckFunc returns in goroutine i: the goroutine ends (wg.Done()) when
\* the probe is rejected, otherwise it enters the append of
\* handleLoadBalancer and reads the length of the slice.  A response of the
\* HTTP client always carries its request, so req is not nil.
ProbeReturn(i) ==
    /\ probes[i].pc = "probing"
    /\ probes' = [probes EXCEPT ![i] =
           IF Admitted(loadBalansers[i])
           THEN [pc |-> "append", len |-> loadBalancerResponses.len]
           ELSE [pc |-> "done", len |-> 0]]
    /\ UNCHANGED <<pc, ret, events, inputs, probeNext, loadBalancerResponses,
                   writeVars, statusVars, lastCall, userVars, planVars, urlVars,
                   monitorVars, instanceState, monitor, monitorCancelFunc,
                   lbList, lbCalls, workers>>

\* The append of goroutine i stores its entry after the length it read and
\* writes the slice back; the slice is shared without a lock, so the length
\* read may be stale.  Then wg.Done().
AppendStore(i) ==
    /\ probes[i].pc = "append"
    /\ loadBalancerResponses' =
           [arr |-> [loadBalancerResponses.arr EXCEPT ![probes[i].len + 1] = i],
            len |-> probes[i].len + 1]
    /\ probes' = [probes EXCEPT ![i].pc = "done"]
    /\ UNCHANGED <<pc, ret, events, inputs, probeNext, writeVars, statusVars,
                   lastCall, userVars, planVars, urlVars, monitorVars,
                   instanceState, monitor, monitorCancelFunc, lbList, lbCalls,
                   workers>>

\* The loop is over, wg.Wait() returns, and the list is built from the slice.
CheckLoadBalancersReturn ==
    /\ pc = "probeLoop"
    /\ probeNext > Len(loadBalansers)
    /\ WaitGroupIdle
    /\ lbList' = SubSeq(loadBalancerResponses.arr, 1, loadBalancerResponses.len)
    /\ pc' = "initInstanceState"
    /\ UNCHANGED <<ret, events, inputs, probeVars, writeVars, statusVars,
                   lastCall, userVars, planVars, urlVars, monitorVars,
                   instanceState, monitor, monitorCancelFunc, lbCalls, workers>>

\* initInstanceState, instanceState.Get() and the choice of the status.
InitInstanceState ==
    /\ pc = "initInstanceState"
    /\ \E initOk \in BOOLEAN :
         IF ~initOk
         THEN /\ ret' = ErrInitInstanceState
              /\ pc' = "done"
              /\ UNCHANGED planVars
         ELSE /\ status' = IF instanceState.present /\ instanceState.hasStatus
                           THEN [TotalSize |-> instanceState.TotalSize,
                                 gen |-> instanceState.gen]
                           ELSE [TotalSize |-> fileSize, gen |-> NoGen]
              /\ ranges' = IF instanceState.present
                           THEN instanceState.Ranges ELSE <<>>
              /\ pc' = "plan"
              /\ UNCHANGED <<ret, parallel, blockSize, cacheSize>>
    /\ UNCHANGED <<events, inputs, probeVars, writeVars, statusVars, lastCall,
                   userVars, urlVars, monitorVars, instanceState, monitor,
                   monitorCancelFunc, lbList, lbCalls, workers>>

\* SelectParallel, SelectBlockSizeAndInitRangeGen and the range list.
PlanRanges ==
    /\ pc = "plan"
    /\ LET par == SelectParallel(sliceParallel, MaxParallelWorkerCount,
                                 status.TotalSize, ranges)
           sel == SelectBlockSizeAndInitRangeGen(status, par, configMode,
                                                 configBlockSize)
           rs  == InitRanges(ranges, sel.status, par, fileSize)
       IN  /\ parallel' = par
           /\ IF sel.initErr # NoErr
              THEN /\ ret' = sel.initErr
                   /\ pc' = "done"
                   /\ UNCHANGED <<status, blockSize, cacheSize, ranges>>
              ELSE /\ blockSize' = sel.blockSize
                   /\ cacheSize' = SelectCacheSize(configCacheSize,
                                                   sel.blockSize)
                   /\ ranges' = rs.ranges
                   /\ status' = [sel.status EXCEPT !.gen = rs.gen]
                   /\ pc' = "resolve"
                   /\ UNCHANGED ret
    /\ UNCHANGED <<events, inputs, probeVars, writeVars, statusVars, lastCall,
                   userVars, urlVars, monitorVars, instanceState, monitor,
                   monitorCancelFunc, lbList, lbCalls, workers>>

\* The primary URL the album lookup picks, as an answer of UrlAnswers.
AlbumPrimary(durl, ext) ==
    IF durl.kind # "Durl" THEN durl.kind
    ELSE LET realUrl == IF durl.hasStreams
                        THEN IF ext = "mov" THEN durl.Mov
                             ELSE IF durl.Heic # "" THEN durl.Heic ELSE durl.Jpeg
                        ELSE durl.Url
         IN  IF realUrl = "" THEN "Empty"
             ELSE IF realUrl = "illegal" THEN "Illegal" ELSE "Ok"

\* What the lookup's result does to the session.
ApplyUrlResult(res, primary) ==
    /\ urlRes' = res
    /\ primaryAnswer' = primary
    /\ events' = events \o res.fired
    /\ instanceState' = AfterFired(instanceState, res.fired)
    /\ IF res.panic
       THEN pc' = "panicked" /\ ret' = "panic"
       ELSE pc' = "resolved" /\ UNCHANGED ret

\* getFileAllClientDownloadUrl: the lookup of the session's source.
GetFileAllClientDownloadUrl ==
    /\ pc = "resolve"
    /\ IF filePanSource = "AlbumSource"
       THEN \E durl \in AlbumAnswers, ext \in {"mov", "jpg"} :
                ApplyUrlResult(GetAlbumSourceDownloadUrl(durl, ext),
                               AlbumPrimary(durl, ext))
       ELSE \* the auxiliary accounts are asked once the main account passed
            \E main \in UrlAnswers, info \in UserInfoAnswers :
                IF main = "Ok" /\ info = "Ok"
                THEN \E mainDriveName \in MainDriveNames,
                        subs \in [1..subPanClientList -> SubAnswers] :
                         ApplyUrlResult(
                             GetFileSourceDownloadUrl(main, info, mainDriveName,
                                                      subs), main)
                ELSE ApplyUrlResult(
                         GetFileSourceDownloadUrl(main, info, "", <<>>), main)
    /\ UNCHANGED <<inputs, probeVars, writeVars, statusVars, lastCall, userVars,
                   planVars, monitorVars, monitor, monitorCancelFunc, lbList,
                   lbCalls, workers>>

\* What Execute fires when the lookup returned (urls, err).
UrlFailureFired(res) ==
    IF res.err # NoErr \/ res.isNil THEN <<EvCancel>> ELSE <<>>

\* Execute's check of what getFileAllClientDownloadUrl returned.
ExecuteCheckUrl ==
    /\ pc = "resolved"
    /\ events' = events \o UrlFailureFired(urlRes)
    /\ IF urlRes.err # NoErr \/ urlRes.isNil
       THEN ret' = urlRes.err /\ pc' = "done"
       ELSE pc' = "bind" /\ UNCHANGED ret
    /\ UNCHANGED <<inputs, probeVars, writeVars, statusVars, lastCall, userVars,
                   planVars, urlVars, monitorVars, instanceState, monitor,
                   monitorCancelFunc, lbList, lbCalls, workers>>

\* The creation of the workers, one per range.
BindWorkers ==
    /\ pc = "bind"
    /\ LET nw == NewWorkers(0, ranges, urlRes.urls, lbList, lbCalls, <<>>)
       IN  /\ workers' = nw.workers
           /\ lbCalls' = nw.calls
           /\ IF nw.panic
              THEN pc' = "panicked" /\ ret' = "panic"
              ELSE pc' = "monitor" /\ UNCHANGED ret
    /\ UNCHANGED <<events, inputs, probeVars, writeVars, statusVars, lastCall,
                   userVars, planVars, urlVars, monitorVars, instanceState,
                   monitor, monitorCancelFunc, lbList>>

\* downloadStatusEvent: nothing without a status callback, else a goroutine
\* that is started waiting in its select.
DownloadStatusEvent(registered) == IF registered THEN "waiting" ELSE "none"

\* The monitor's context and cancel function, the Execute event, and the
\* start of monitor.Execute, which ends at once with ErrNoWokers when the
\* monitor has no worker.
MonitorStart ==
    /\ pc = "monitor"
    /\ monitorCancelFunc' = TRUE
    /\ events' = Append(events, EvExecute)
    /\ statusTask' = DownloadStatusEvent(onDownloadStatusEvent)
    /\ IF Len(workers) = 0
       THEN monitorErr' = ErrNoWokers /\ pc' = "checkErr"
       ELSE pc' = "running" /\ UNCHANGED monitorErr
    /\ UNCHANGED <<ret, inputs, probeVars, writeVars, completed, statusCalledIn, lastCall,
                   userVars, planVars, urlVars, ctxCancelled, paused,
                   workerDone, instanceState, monitor, lbList, lbCalls,
                   workers>>

\* A slip of FinishFired: the monitor's error ignored.  C6 must fail under it.
FinishFiredIgnoringErr(err, fileSz) ==
    <<EvSuccess, RemoveInstanceState, EvFinish>>

\* What Execute fires and removes once the monitor returned with err.
FinishFired(err, fileSz) ==
    IF err = NoErr
    THEN <<EvSuccess, RemoveInstanceState, EvFinish>>
    ELSE IF err = ErrNoWokers /\ fileSz = 0
    THEN <<EvSuccess, RemoveInstanceState, EvFinish>>
    ELSE <<EvFinish>>

\* Execute after monitor.Execute returned: the check of monitor.Err().
ExecuteCheckErr ==
    /\ pc = "checkErr"
    /\ events' = events \o FinishFired(monitorErr, fileSize)
    /\ instanceState' = AfterFired(instanceState, FinishFired(monitorErr, fileSize))
    /\ ret' = monitorErr
    /\ pc' = "done"
    /\ UNCHANGED <<inputs, probeVars, writeVars, statusVars, lastCall, userVars,
                   planVars, urlVars, monitorVars, monitor, monitorCancelFunc,
                   lbList, lbCalls, workers>>

\* ------------------------------------------------- Monitor
WorkerIds == {workers[i].id : i \in 1..Len(workers)}

\* A worker completes its range; parked (paused) workers make no progress.
WorkerFinish ==
    /\ pc = "running"
    /\ ~paused
    /\ \E w \in (WorkerIds \ workerDone) \ writers :
           workerDone' = workerDone \cup {w}
    /\ UNCHANGED <<pc, ret, events, inputs, probeVars, writeVars, statusVars,
                   lastCall, userVars, planVars, urlVars, ctxCancelled, paused,
                   monitorErr, instanceState, monitor, monitorCancelFunc,
                   lbList, lbCalls, workers>>

\* The write mutex worker w was given.
WriteMutexOf(w) ==
    workers[CHOOSE i \in 1..Len(workers) : workers[i].id = w].writeMu
\* A worker has read a chunk: it locks its write mutex and enters
\* writer.WriteAt; it waits while the mutex is locked.
WorkerWriteLock ==
    /\ pc = "running"
    /\ ~paused
    /\ \E w \in (WorkerIds \ workerDone) \ writers :
           /\ WriteMutexOf(w) \notin writeMuHeld
           /\ writeMuHeld' = writeMuHeld \cup {WriteMutexOf(w)}
           /\ writers' = writers \cup {w}
    /\ UNCHANGED <<pc, ret, events, inputs, probeVars, statusVars, lastCall,
                   userVars, planVars, urlVars, monitorVars, instanceState,
                   monitor, monitorCancelFunc, lbList, lbCalls, workers>>

\* WriteAt returned: the worker unlocks its write mutex.
WorkerWriteUnlock ==
    /\ pc = "running"
    /\ \E w \in writers :
           /\ writeMuHeld' = writeMuHeld \ {WriteMutexOf(w)}
           /\ writers' = writers \ {w}
    /\ UNCHANGED <<pc, ret, events, inputs, probeVars, statusVars, lastCall,
                   userVars, planVars, urlVars, monitorVars, instanceState,
                   monitor, monitorCancelFunc, lbList, lbCalls, workers>>

\* The supervision tick writes the checkpoint.
MonitorTick ==
    /\ pc = "running"
    /\ instanceState' = [present |-> TRUE, hasStatus |-> TRUE,
                         TotalSize |-> status.TotalSize, gen |-> status.gen,
                         Ranges |-> ranges]
    /\ UNCHANGED <<pc, ret, events, inputs, probeVars, writeVars, statusVars,
                   lastCall, userVars, planVars, urlVars, monitorVars, monitor,
                   monitorCancelFunc, lbList, lbCalls, workers>>

\* All workers are done: the monitor signals completion and returns.
MonitorCompleted ==
    /\ pc = "running"
    /\ workerDone = WorkerIds
    /\ monitorErr' = NoErr
    /\ completed' = TRUE
    /\ pc' = "checkErr"
    /\ UNCHANGED <<ret, events, inputs, probeVars, writeVars, statusTask, statusCalledIn,
                   lastCall, userVars, planVars, urlVars, ctxCancelled, paused,
                   workerDone, instanceState, monitor, monitorCancelFunc,
                   lbList, lbCalls, workers>>

\* The monitor's error after a cancelled context: a user cancel is not an
\* error, or it is a dedicated sentinel.
CancelErrs == {NoErr, ErrCancelled}

\* The monitor observes its cancelled context, stops the workers and returns.
MonitorCancelled ==
    /\ pc = "running"
    /\ ctxCancelled
    /\ \E e \in CancelErrs : monitorErr' = e
    /\ pc' = "checkErr"
    /\ UNCHANGED <<ret, events, inputs, probeVars, writeVars, statusVars,
                   lastCall, userVars, planVars, urlVars, ctxCancelled, paused,
                   workerDone, instanceState, monitor, monitorCancelFunc,
                   lbList, lbCalls, workers>>

\* The session fails: every remaining worker failed for good (ErrNoWokers),
\* or a write to the sink failed.
MonitorFailed ==
    /\ pc = "running"
    /\ workerDone # WorkerIds
    /\ \E e \in {ErrNoWokers, ErrDiskWrite} : monitorErr' = e
    /\ pc' = "checkErr"
    /\ UNCHANGED <<ret, events, inputs, probeVars, writeVars, statusVars,
                   lastCall, userVars, planVars, urlVars, ctxCancelled, paused,
                   workerDone, instanceState, monitor, monitorCancelFunc,
                   lbList, lbCalls, workers>>

\* ------------------------------------------------- the status goroutine
\* Where the session is when the status callback is invoked: the monitor
\* runs, the monitor has returned, or Execute has fired Finish.
Phase ==
    IF \E i \in 1..Len(events) : events[i] = EvFinish THEN "finished"
    ELSE IF pc = "running" THEN "running"
    ELSE "returned"

\* case <-ticker.C: the select takes the tick (of the cases that are ready it
\* takes any) and the goroutine sleeps 500 ms.
StatusTick ==
    /\ statusTask = "waiting"
    /\ statusTask' = "sleeping"
    /\ UNCHANGED <<pc, ret, events, inputs, probeVars, writeVars, completed,
                   statusCalledIn, lastCall, userVars, planVars, urlVars,
                   monitorVars, instanceState, monitor, monitorCancelFunc,
                   lbList, lbCalls, workers>>

\* After the sleep: der.onDownloadStatusEvent(status, der.monitor.RangeWorker),
\* and back to the select.
StatusCallback ==
    /\ statusTask = "sleeping"
    /\ statusCalledIn' = statusCalledIn \cup {Phase}
    /\ statusTask' = "waiting"
    /\ UNCHANGED <<pc, ret, events, inputs, probeVars, writeVars, completed,
                   lastCall, userVars, planVars, urlVars, monitorVars,
                   instanceState, monitor, monitorCancelFunc, lbList, lbCalls,
                   workers>>

\* case <-der.monitor.completed: the goroutine returns.
StatusExit ==
    /\ statusTask = "waiting"
    /\ completed
    /\ statusTask' = "exited"
    /\ UNCHANGED <<pc, ret, events, inputs, probeVars, writeVars, completed,
                   statusCalledIn, lastCall, userVars, planVars, urlVars,
                   monitorVars, instanceState, monitor, monitorCancelFunc,
                   lbList, lbCalls, workers>>

\* ------------------------------------------------- Pause, Resume, Cancel, Failed
\* The caller's side: any goroutine may call these at any moment before the
\* Execute call has returned (or the process has died of a panic).
CanCall == pc \notin {"panicked", "done"} /\ userCalls < MaxUserCalls

Fire(e) == userFired' = [userFired EXCEPT ![e] = @ + 1]

\* A slip of Pause: no test of der.monitor.  C31 must fail under it.
PauseNoNilCheck ==
    /\ CanCall
    /\ userCalls' = userCalls + 1
    /\ Fire(EvPause)
    /\ paused' = TRUE
    /\ UNCHANGED <<pc, ret, events, inputs, probeVars, writeVars, statusVars,
                   lastCall, cancelEarly, cancelRunning, planVars, urlVars,
                   ctxCancelled, monitorErr, workerDone, instanceState,
                   monitor, monitorCancelFunc, lbList, lbCalls, workers>>

Pause ==
    /\ CanCall
    /\ userCalls' = userCalls + 1
    /\ IF ~monitor
       THEN UNCHANGED <<userFired, paused>>
       ELSE Fire(EvPause) /\ paused' = TRUE
    /\ UNCHANGED <<pc, ret, events, inputs, probeVars, writeVars, statusVars,
                   lastCall, cancelEarly, cancelRunning, planVars, urlVars,
                   ctxCancelled, monitorErr, workerDone, instanceState, monitor,
                   monitorCancelFunc, lbList, lbCalls, workers>>

Resume ==
    /\ CanCall
    /\ userCalls' = userCalls + 1
    /\ IF ~monitor
       THEN UNCHANGED <<userFired, paused>>
       ELSE Fire(EvResume) /\ paused' = FALSE
    /\ UNCHANGED <<pc, ret, events, inputs, probeVars, writeVars, statusVars,
                   lastCall, cancelEarly, cancelRunning, planVars, urlVars,
                   ctxCancelled, monitorErr, workerDone, instanceState, monitor,
                   monitorCancelFunc, lbList, lbCalls, workers>>

\* cmdutil.Trigger(der.monitorCancelFunc): nothing when the function is nil.
TriggerCancelFunc == ctxCancelled \/ monitorCancelFunc

Cancel ==
    /\ CanCall
    /\ userCalls' = userCalls + 1
    /\ IF ~monitor
       THEN UNCHANGED <<userFired, ctxCancelled>>
       ELSE Fire(EvCancel) /\ ctxCancelled' = TriggerCancelFunc
    /\ cancelEarly' = (cancelEarly \/
                       pc \in {"checkLoadBalancers", "probeLoop",
                               "initInstanceState", "plan",
                               "resolve", "resolved", "bind", "monitor"})
    /\ cancelRunning' = (cancelRunning \/ pc = "running")
    /\ UNCHANGED <<pc, ret, events, inputs, probeVars, writeVars, statusVars,
                   lastCall, planVars, urlVars, paused, monitorErr, workerDone,
                   instanceState, monitor, monitorCancelFunc, lbList, lbCalls,
                   workers>>

Failed ==
    /\ CanCall
    /\ userCalls' = userCalls + 1
    /\ IF ~monitor
       THEN UNCHANGED <<userFired, ctxCancelled>>
       ELSE Fire(EvFail) /\ ctxCancelled' = TriggerCancelFunc
    /\ UNCHANGED <<pc, ret, events, inputs, probeVars, writeVars, statusVars,
                   lastCall, cancelEarly, cancelRunning, planVars, urlVars,
                   paused, monitorErr, workerDone, instanceState, monitor,
                   monitorCancelFunc, lbList, lbCalls, workers>>

\* ------------------------------------------------- SelectParallel, called directly
\* SelectParallel is exported: the calls a user of the package may make.
SelectParallelCalls ==
    UNION {[prefParallel : -1..PlanMaxParallel,
            maxParallel : -1..(PlanMaxParallel + 1),
            totalSize : {ts},
            instanceRangeList : CheckpointRanges(ts),
            called : {FALSE}, parallel : {0}] : ts \in 0..PlanMaxFileSize}

InitSelect ==
    /\ loadBalansers = <<>>
    /\ InitDownloader
    /\ onDownloadStatusEvent = FALSE
    /\ lastCall \in SelectParallelCalls
    /\ configCacheSize = MaxCacheSize
    /\ fileSize = 0
    /\ filePanSource = "FileSource"
    /\ configMode = "Default"
    /\ sliceParallel = 0
    /\ configBlockSize = 0
    /\ subPanClientList = 0
    /\ instanceState = NoInstance

CallSelectParallel ==
    /\ ~lastCall.called
    /\ lastCall' = [lastCall EXCEPT
           !.called = TRUE,
           !.parallel = SelectParallel(lastCall.prefParallel,
                                       lastCall.maxParallel, lastCall.totalSize,
                                       lastCall.instanceRangeList)]
    /\ UNCHANGED <<pc, ret, events, inputs, userVars, planVars, urlVars,
                   monitorVars, probeVars, writeVars, statusVars, instanceState,
                   monitor, monitorCancelFunc, lbList, lbCalls, workers>>

\* A direct call of getFileSourceDownloadUrl, over the answers of the main
\* account and of up to MaxUrlSubClients auxiliary accounts.
UrlCalls ==
    UNION {[main : UrlAnswers, info : UserInfoAnswers,
            mainDriveName : MainDriveNames, subs : [1..n -> SubAnswers],
            called : {FALSE}, result : {NoUrlRes}] : n \in 0..MaxUrlSubClients}

InitUrl ==
    /\ loadBalansers = <<>>
    /\ InitDownloader
    /\ onDownloadStatusEvent = FALSE
    /\ lastCall \in UrlCalls
    /\ configCacheSize = MaxCacheSize
    /\ fileSize = 1
    /\ filePanSource = "FileSource"
    /\ configMode = "Default"
    /\ sliceParallel = 0
    /\ configBlockSize = 0
    /\ subPanClientList = Len(lastCall.subs)
    /\ instanceState = NoInstance

CallGetFileSourceDownloadUrl ==
    /\ ~lastCall.called
    /\ lastCall' = [lastCall EXCEPT
           !.called = TRUE,
           !.result = GetFileSourceDownloadUrl(lastCall.main, lastCall.info,
                                               lastCall.mainDriveName,
                                               lastCall.subs)]
    /\ UNCHANGED <<pc, ret, events, inputs, userVars, planVars, urlVars,
                   monitorVars, probeVars, writeVars, statusVars, instanceState,
                   monitor, monitorCancelFunc, lbList, lbCalls, workers>>

\* ------------------------------------------------- sharew (share_web.go)
\* A flag the command line does not give: c.IsSet is false.
NotSet == "NotSet"
\* The drives of the logged-in user, and a drive ID that is neither.
FileDriveId == "fileDrive"
ResourceDriveId == "resourceDrive"
OtherDriveId == "otherDrive"
\* config.Config.ActiveUser() and its WebapiPanClient(): nil or there.
Logins == {"NoUser", "NoWebClient", "LoggedIn"}
\* What matchPathByShellPattern answers for a path.
MatchAnswers == {"Err", "Empty", "Files"}
\* What FastShareLinkCreate / ShareLinkCreate answer: (r, err1).
CreateAnswers == [err : {"nil", "NotAllowed", "Other"}, r : BOOLEAN]

\* parseDriveId(c): the --driveId flag when given, the active drive otherwise.
parseDriveId(driveIdFlag, activeDriveId) ==
    IF driveIdFlag # "" THEN driveIdFlag ELSE activeDriveId

\* What a sharew command leaves behind: whether RunShareSet was called and
\* with which arguments, the request sent, what was printed, the rows of the
\* table or file, and whether the process died of a runtime panic.
ShareResult(ran, modeFlag, driveId, exp, pw, request, printed, rows, panic) ==
    [RunShareSet |-> ran, modeFlag |-> modeFlag, driveId |-> driveId,
     expiredTime |-> exp, sharePwd |-> pw, request |-> request,
     printed |-> printed, rows |-> rows, panic |-> panic]

\* The command printed msg without calling RunShareSet.
Printed(msg) == ShareResult(FALSE, "", "", "", "", "none", msg, <<>>, FALSE)
NoShareResult == Printed("")

\* RunShareSet: paths are the answers of matchPathByShellPattern for each
\* path, created the answer of the link creation.
RunShareSet(modeFlag, driveId, paths, expiredTime, sharePwd, created) ==
    LET Res(request, printed, panic) ==
            ShareResult(TRUE, modeFlag, driveId, expiredTime, sharePwd,
                        request, printed, <<>>, panic)
        request == IF modeFlag = "3" THEN "FastShareLinkCreate"
                   ELSE "ShareLinkCreate"
    IN  IF Len(paths) <= 0 THEN Res("none", "no path", FALSE)
        ELSE IF \A i \in 1..Len(paths) : paths[i] # "Files"
        THEN Res("none", "no valid file", FALSE)
        ELSE IF created.err # "nil" \/ ~created.r
        THEN IF created.err = "nil"
             THEN Res(request, "", TRUE)              \* err1.Code of a nil err1
             ELSE IF created.err = "NotAllowed"
             THEN Res(request, "create failed: not allowed", FALSE)
             ELSE Res(request, "create failed", FALSE)
        ELSE Res(request, "created", FALSE)

\* The action of `sharew set`.
ShareSetAction(call) ==
    LET timeFlag == IF call.time # NotSet THEN call.time ELSE "0"
        et == IF timeFlag = "1" THEN "1 day"
              ELSE IF timeFlag = "2" THEN "7 days" ELSE ""
        pwd == IF call.sharePwd # NotSet THEN call.sharePwd ELSE ""
        modeFlag == IF call.mode # NotSet THEN call.mode ELSE "3"
        sharePwd == IF modeFlag = "1"
                    THEN IF pwd = "" THEN "RandomStr(4)" ELSE pwd
                    ELSE ""
    IN  IF Len(call.paths) < 1 THEN Printed("help")
        ELSE IF call.login = "NoUser" THEN Printed("not logged in")
        ELSE IF call.login = "NoWebClient" THEN Printed("web client not logged in")
        ELSE IF /\ modeFlag \in {"1", "2"}
                /\ call.ActiveDriveId # ResourceDriveId
        THEN Printed("resource drive only")
        ELSE RunShareSet(modeFlag,
                         parseDriveId(call.driveId, call.ActiveDriveId),
                         call.paths, et, sharePwd, call.created)

\* The invocations of `sharew set`: arguments, flags, the user's state and the
\* provider's answers.
ShareSetCalls ==
    UNION {[op : {"set"}, paths : [1..n -> MatchAnswers], login : Logins,
            mode : {NotSet, "1", "2", "3", "0"},
            driveId : {"", FileDriveId, ResourceDriveId, OtherDriveId},
            ActiveDriveId : {FileDriveId, ResourceDriveId},
            time : {NotSet, "1", "2"}, sharePwd : {NotSet, "2333"},
            created : CreateAnswers,
            called : {FALSE}, result : {NoShareResult}]
           : n \in 0..MaxSharePaths}

ShareSet ==
    /\ lastCall.op = "set"
    /\ ~lastCall.called
    /\ lastCall' = [lastCall EXCEPT !.called = TRUE,
                                    !.result = ShareSetAction(lastCall)]
    /\ UNCHANGED <<pc, ret, events, inputs, userVars, planVars, urlVars,
                   monitorVars, probeVars, writeVars, statusVars, instanceState,
                   monitor, monitorCancelFunc, lbList, lbCalls, workers>>

\* A share record as ShareLinkList returns it: its Status, whether FirstFile
\* is there, and its Expiration ("" is none; a malformed one parses to the
\* zero time).  A record's ShareId is its place in the list.
ShareRecords ==
    [Status : {"enabled", "forbidden", "disabled"}, FirstFile : BOOLEAN,
     Expiration : {"", "past", "future", "malformed"}]

\* expiredTime.Unix() < now.Unix() of a non-empty Expiration.
Expired(expiration) == expiration \in {"past", "malformed"}

\* The labels of the status column: 有效, 已删除, 已过期, 违规.
StatusValid == "valid"
StatusDeleted == "deleted"
StatusExpired == "expired"
StatusForbidden == "forbidden"

\* The status RunShareList prints for a record.
ListStatus(record) ==
    IF record.Status = "enabled"
    THEN IF ~record.FirstFile THEN StatusDeleted
         ELSE IF record.Expiration # "" /\ Expired(record.Expiration)
         THEN StatusExpired
         ELSE StatusValid
    ELSE IF record.Status = "forbidden" THEN StatusForbidden
    ELSE StatusValid

\* The status RunShareExport computes for a record.
ExportStatus(record) ==
    IF ~record.FirstFile THEN StatusDeleted
    ELSE IF record.Expiration # "" /\ Expired(record.Expiration)
    THEN StatusExpired
    ELSE StatusValid

Row(idx, shareId, label) ==
    [idx |-> idx, ShareId |-> shareId, status |-> label]

\* RunShareList: one row per record, numbered k + 1.
RunShareList(listErr, records) ==
    IF listErr
    THEN Printed("list failed")
    ELSE ShareResult(FALSE, "", "", "", "", "ShareLinkList", "table",
                     [k \in 1..Len(records) |->
                         Row(k, k, ListStatus(records[k]))], FALSE)

\* The loop of RunShareExport from record k on: idx is the next row number.
RECURSIVE ExportRows(_, _, _, _)
ExportRows(option, records, k, idx) ==
    IF k > Len(records) THEN <<>>
    ELSE LET label == ExportStatus(records[k])
         IN  IF option = "1" /\ label \in {StatusExpired, StatusDeleted}
             THEN ExportRows(option, records, k + 1, idx)
             ELSE <<Row(idx, k, label)>>
                  \o ExportRows(option, records, k + 1, idx + 1)

\* RunShareExport: the rows handed to ExportCsv, which says whether it saved.
RunShareExport(option, listErr, records, saved) ==
    IF listErr
    THEN Printed("list failed")
    ELSE ShareResult(FALSE, "", "", "", "", "ShareLinkList",
                     IF saved THEN "exported" ELSE "",
                     ExportRows(option, records, 1, 1), FALSE)

\* The action of `sharew list`.
ShareListAction(call) ==
    IF call.login = "NoUser" THEN Printed("not logged in")
    ELSE IF call.login = "NoWebClient" THEN Printed("web client not logged in")
    ELSE RunShareList(call.listErr, call.records)

\* The action of `sharew export`.
ShareExportAction(call) ==
    IF call.login = "NoUser" THEN Printed("not logged in")
    ELSE IF call.login = "NoWebClient" THEN Printed("web client not logged in")
    ELSE IF call.NArg < 1 THEN Printed("help")
    ELSE RunShareExport(IF call.option = "" THEN "1" ELSE call.option,
                        call.listErr, call.records, call.saved)

\* The invocations of `sharew list` and `sharew export`.
ShareListCalls ==
    UNION {[op : {"list"}, login : Logins, listErr : BOOLEAN,
            records : [1..n -> ShareRecords],
            called : {FALSE}, result : {NoShareResult}]
           : n \in 0..MaxShareRecords}

ShareExportCalls ==
    UNION {[op : {"export"}, login : Logins, NArg : 0..1,
            option : {"", "1", "2"}, listErr : BOOLEAN,
            records : [1..n -> ShareRecords], saved : BOOLEAN,
            called : {FALSE}, result : {NoShareResult}]
           : n \in 0..MaxShareRecords}

ShareList ==
    /\ lastCall.op = "list"
    /\ ~lastCall.called
    /\ lastCall' = [lastCall EXCEPT !.called = TRUE,
                                    !.result = ShareListAction(lastCall)]
    /\ UNCHANGED <<pc, ret, events, inputs, userVars, planVars, urlVars,
                   monitorVars, probeVars, writeVars, statusVars, instanceState,
                   monitor, monitorCancelFunc, lbList, lbCalls, workers>>

ShareExport ==
    /\ lastCall.op = "export"
    /\ ~lastCall.called
    /\ lastCall' = [lastCall EXCEPT !.called = TRUE,
                                    !.result = ShareExportAction(lastCall)]
    /\ UNCHANGED <<pc, ret, events, inputs, userVars, planVars, urlVars,
                   monitorVars, probeVars, writeVars, statusVars, instanceState,
                   monitor, monitorCancelFunc, lbList, lbCalls, workers>>

\* The state before a sharew command runs: no download is under way.
InitShare ==
    /\ loadBalansers = <<>>
    /\ InitDownloader
    /\ onDownloadStatusEvent = FALSE
    /\ lastCall \in ShareSetCalls \cup ShareListCalls \cup ShareExportCalls
    /\ configCacheSize = MaxCacheSize
    /\ fileSize = 0
    /\ filePanSource = "FileSource"
    /\ configMode = "Default"
    /\ sliceParallel = 0
    /\ configBlockSize = 0
    /\ subPanClientList = 0
    /\ instanceState = NoInstance

\* ------------------------------------------------- specifications
ExecuteSteps ==
    \/ ExecuteStart
    \/ CheckLoadBalancers
    \/ InitInstanceState
    \/ PlanRanges
    \/ GetFileAllClientDownloadUrl
    \/ ExecuteCheckUrl
    \/ BindWorkers
    \/ MonitorStart
    \/ ExecuteCheckErr

MonitorSteps ==
    \/ WorkerFinish
    \/ MonitorTick
    \/ MonitorCompleted
    \/ MonitorCancelled
    \/ MonitorFailed

Init == InitSession

Next ==
    \/ ExecuteSteps
    \/ MonitorSteps
    \/ Pause
    \/ Resume
    \/ Cancel
    \/ Failed

Spec == Init /\ [][Next]_vars

\* A session nobody pauses or cancels and that does not fail, with or without
\* a status callback, and the goroutine that drives the callback.
InitStatus ==
    /\ loadBalansers = <<>>
    /\ InitDownloader
    /\ onDownloadStatusEvent \in BOOLEAN
    /\ lastCall = NoCall
    /\ configCacheSize = MaxCacheSize
    /\ fileSize \in 0..MaxFileSize
    /\ filePanSource \in FileSources
    /\ configMode \in RangeGenModes
    /\ sliceParallel \in 0..MaxSliceParallel
    /\ configBlockSize \in {1}
    /\ subPanClientList \in 0..MaxSubClients
    /\ instanceState \in Checkpoints(fileSize)

NextStatus ==
    \/ ExecuteSteps
    \/ WorkerFinish
    \/ MonitorCompleted
    \/ StatusTick
    \/ StatusCallback
    \/ StatusExit

SpecStatus == InitStatus /\ [][NextStatus]_vars

\* The planning of Execute alone, over every configuration.
NextPlan ==
    \/ ExecuteStart
    \/ CheckLoadBalancers
    \/ InitInstanceState
    \/ PlanRanges

SpecPlan == InitPlan /\ [][NextPlan]_vars

\* The writes of the workers: a session nobody pauses or cancels, with the
\* workers' writes to the shared writer.
NextWrite ==
    \/ ExecuteSteps
    \/ WorkerWriteLock
    \/ WorkerWriteUnlock
    \/ WorkerFinish
    \/ MonitorCompleted

SpecWrite == InitSession /\ [][NextWrite]_vars

\* The probes of checkLoadBalancers: Execute up to the URL pool.
InitProbe ==
    /\ fileSize = 1
    /\ \/ \E n \in 0..MaxLoadBalansers :
              loadBalansers \in [1..n -> ProbeAnswers(fileSize)]
       \/ \E n \in 0..MaxProbes :
              \E a \in {TransportError,
                        [err |-> FALSE, statusClass |-> 2,
                         contentLength |-> fileSize]} :
                  loadBalansers = [i \in 1..n |->
                                      IF i = 1 THEN a ELSE TransportError]
    /\ InitDownloader
    /\ onDownloadStatusEvent = FALSE
    /\ lastCall = NoCall
    /\ configCacheSize = MaxCacheSize
    /\ filePanSource = "FileSource"
    /\ configMode = "Default"
    /\ sliceParallel = 0
    /\ configBlockSize = 0
    /\ subPanClientList = 0
    /\ instanceState = NoInstance

NextProbe ==
    \/ ExecuteStart
    \/ CheckLoadBalancers
    \/ CheckLoadBalancersBegin
    \/ StartProbe
    \/ \E i \in 1..Len(loadBalansers) : ProbeReturn(i)
    \/ \E i \in 1..Len(loadBalansers) : AppendStore(i)
    \/ CheckLoadBalancersReturn

SpecProbe == InitProbe /\ [][NextProbe]_vars

\* SelectParallel alone, over its arguments.
NextSelect == CallSelectParallel

SpecSelect == InitSelect /\ [][NextSelect]_vars

\* getFileSourceDownloadUrl alone, over the accounts' answers.
NextUrl == CallGetFileSourceDownloadUrl

SpecUrl == InitUrl /\ [][NextUrl]_vars

\* The sharew commands, one invocation each.
NextShare ==
    \/ ShareSet
    \/ ShareList
    \/ ShareExport

SpecShare == InitShare /\ [][NextShare]_vars

\* ------------------------------------------------- properties
Count(seq, e) == Cardinality({i \in 1..Len(seq) : seq[i] = e})
Fired(e) == Count(events, e) > 0
Last(seq) == seq[Len(seq)]
LifecycleEvents == {EvExecute, EvSuccess, EvFail, EvCancel, EvFinish}
\* Execute has returned.
Returned == pc = "done"
\* monitor.Execute was run in this session.
MonitorRan == Fired(EvExecute)

\* C1: every Execute call that returns has fired Finish exactly once, as the
\* last lifecycle event it fired.
C1_FinishOnceAndLast ==
    Returned => /\ Count(events, EvFinish) = 1
                /\ Last(events) = EvFinish

\* C2: whenever the lookup of the primary URL fails (API error, nil, empty or
\* illegal URL), Execute fires Cancel, then removes the checkpoint, then fires
\* Fail, returns ErrFileDownloadForbidden, creates no worker and never runs the
\* monitor.
PrimaryFailed == primaryAnswer \in {"ApiErr", "Nil", "Empty", "Illegal"}
C2_PrimaryFailureIsForbidden ==
    (PrimaryFailed /\ Returned)
        => /\ ret = ErrFileDownloadForbidden
           /\ \E i, j, k \in 1..Len(events) :
                  /\ i < j /\ j < k
                  /\ events[i] = EvCancel
                  /\ events[j] = RemoveInstanceState
                  /\ events[k] = EvFail
           /\ workers = <<>>
           /\ ~MonitorRan

\* C3: within one Execute call each of Execute, Success, Fail, Cancel and
\* Finish is fired at most once.
C3_EachEventAtMostOnce ==
    \A e \in LifecycleEvents : Count(events, e) <= 1

\* C4: a Cancel() called after Execute started and before the monitor's
\* cancel function exists is not lost: once the monitor runs its context is
\* cancelled, and the session does not end in Success.
C4_EarlyCancelNotLost ==
    cancelEarly => /\ (pc \in {"running", "checkErr"} => ctxCancelled)
                   /\ (Returned => ~Fired(EvSuccess))

\* C5: after a Cancel() called while the monitor was running and before the
\* workers were done, Execute returns with Finish fired last, without Success
\* and without removing the checkpoint.
C5_CancelKeepsCheckpoint ==
    (Returned /\ cancelRunning /\ workerDone # WorkerIds)
        => /\ Last(events) = EvFinish
           /\ ~Fired(EvSuccess)
           /\ ~Fired(RemoveInstanceState)

\* C6: when the monitor ends without error Execute fires Success, removes the
\* checkpoint, fires Finish, in this order, and returns nil; when it ends with
\* an error Execute fires no Success, removes no checkpoint and returns that
\* error.
C6_MonitorResult ==
    (Returned /\ MonitorRan)
        => IF monitorErr = NoErr
           THEN /\ Len(events) >= 3
                /\ SubSeq(events, Len(events) - 2, Len(events))
                       = <<EvSuccess, RemoveInstanceState, EvFinish>>
                /\ Count(events, EvSuccess) = 1
                /\ ~instanceState.present
                /\ ret = NoErr
           ELSE /\ ~Fired(EvSuccess)
                /\ ~Fired(RemoveInstanceState)
                /\ ret = monitorErr
C6_Witness ==
    /\ Returned
    /\ MonitorRan
    /\ monitorErr = NoErr
    /\ workerDone = WorkerIds
    /\ Fired(EvSuccess)

\* C7: whenever Execute returns an error, Fail was fired exactly once in that
\* call, before Finish.
C7_FailOnError ==
    (Returned /\ ret # NoErr)
        => /\ Count(events, EvFail) = 1
           /\ \E i, j \in 1..Len(events) :
                  i < j /\ events[i] = EvFail /\ events[j] = EvFinish

\* What holds of a session on a zero-length file in every state.
C8_ZeroFileState ==
    fileSize = 0
        => /\ pc \in {"idle", "done"}
           /\ pc = "done" => (events = <<EvFinish>> /\ ret = NoErr)
           /\ pc = "idle" => events = <<>>
           /\ lbList = <<>> /\ lbCalls = 0
           /\ primaryAnswer = "none" /\ urlRes = NoUrlRes
           /\ status = [TotalSize |-> 0, gen |-> NoGen]
           /\ ranges = <<>> /\ parallel = 0
           /\ workers = <<>>
           /\ ~monitorCancelFunc

\* C8: on a zero-length file Execute fires Finish once and nothing else,
\* returns nil, and neither probes the pool, resolves a URL, initialises or
\* writes a checkpoint, plans ranges nor creates a worker.
C8_ZeroFile ==
    /\ []C8_ZeroFileState
    /\ [][fileSize = 0 => instanceState' = instanceState]_vars
C8_Witness == fileSize = 0 /\ pc = "done" /\ events = <<EvFinish>>

\* C9: for every range index k the URL index k / (rangeCount / urlCount) is
\* defined and is a valid index of the URL list.
C9_UrlIndexValid ==
    pc = "bind" => \A k \in 0..(Len(ranges) - 1) :
                       UrlIndexDefined(k, Len(ranges), Len(urlRes.urls))

\* The bytes of a half-open range.
Bytes(r) == r.Begin .. (r.End - 1)
PairwiseDisjoint(rs) ==
    \A i, j \in 1..Len(rs) : i # j => Bytes(rs[i]) \cap Bytes(rs[j]) = {}
WellFormed(rs) == \A i \in 1..Len(rs) : rs[i].Begin <= rs[i].End
Covered(rs) == UNION {Bytes(rs[i]) : i \in 1..Len(rs)}
\* The range list is planned afresh (no checkpoint) and handed on.
FreshPlan == pc = "resolve" /\ ~instanceState.present

Planned == pc = "resolve"
\* The checkpoint records another total size than the file has.
MismatchedCheckpoint ==
    /\ instanceState.present
    /\ instanceState.hasStatus
    /\ instanceState.TotalSize # fileSize
\* The checkpoint records a range list.
CheckpointHasRanges == instanceState.present /\ Len(instanceState.Ranges) > 0
\* The checkpoint records a range generator.
CheckpointHasGen ==
    instanceState.present /\ instanceState.hasStatus
        /\ instanceState.gen # NoGen

\* C11: a checkpoint whose total size differs from the file's size is
\* discarded: the status has the file's size, and no range of the checkpoint
\* is handed to a worker (every range lies within the file).
C11_MismatchedCheckpointDiscarded ==
    (Planned /\ MismatchedCheckpoint)
        => /\ status.TotalSize = fileSize
           /\ CheckpointHasRanges => ranges # instanceState.Ranges
           /\ \A i \in 1..Len(ranges) : ranges[i].End <= fileSize

\* C12: with a non-empty range list in the checkpoint the effective
\* parallelism is the length of that list, whatever the preferred parallelism,
\* and the ranges handed on are the checkpoint's, unchanged.
C12_CheckpointRangesDecide ==
    (Planned /\ CheckpointHasRanges)
        => /\ parallel = Len(instanceState.Ranges)
           /\ ranges = instanceState.Ranges

Max(a, b) == IF a > b THEN a ELSE b
\* C13: with no checkpoint ranges and preferredParallel <= 0, SelectParallel
\* returns max(1, min(maxParallel, floor(totalSize / MinParallelSize) + 1)),
\* which is at least 1, for every totalSize >= 0 and every maxParallel.
C13_AutoParallel ==
    (lastCall.called /\ lastCall.prefParallel <= 0
        /\ Len(lastCall.instanceRangeList) = 0)
        => /\ lastCall.parallel
                  = Max(1, Min(lastCall.maxParallel,
                               (lastCall.totalSize \div MinParallelSize) + 1))
           /\ lastCall.parallel >= 1
C13_Witness ==
    /\ lastCall.called
    /\ lastCall.prefParallel <= 0
    /\ Len(lastCall.instanceRangeList) = 0
    /\ lastCall.maxParallel = (lastCall.totalSize \div MinParallelSize) + 1
    /\ lastCall.maxParallel > 1
    /\ lastCall.parallel = lastCall.maxParallel

CeilDiv(a, b) == (a + b - 1) \div b
\* BlockSize mode, more than one worker, no generator from the checkpoint.
BlockSizeChosen ==
    Planned /\ configMode = "BlockSize" /\ parallel > 1 /\ ~CheckpointHasGen

\* C14 as stated: the block size is min(config.BlockSize,
\* ceil(totalSize / parallel) + 1).
C14_BlockSizeCeil ==
    BlockSizeChosen
        => blockSize = Min(configBlockSize,
                           CeilDiv(status.TotalSize, parallel) + 1)

\* C14 as amended: the block size is min(config.BlockSize,
\* floor(totalSize / parallel) + 1), and it is the block size of the
\* generator put into the status.
C14_BlockSizeFloor ==
    BlockSizeChosen
        => /\ blockSize = Min(configBlockSize,
                              (status.TotalSize \div parallel) + 1)
           /\ status.gen.mode = "BlockSize"
C14_Witness ==
    /\ BlockSizeChosen
    /\ status.TotalSize % parallel # 0
    /\ blockSize = (status.TotalSize \div parallel) + 1
    /\ blockSize < configBlockSize

\* C15: whenever the effective parallelism is 1 the block size is -1, there
\* is no error, and the range list handed on is the single range
\* [0, totalSize] (stated for the checkpoints that record the file's size).
C15_SingleRange ==
    (pc \in {"resolve", "done"} /\ fileSize > 0 /\ parallel = 1
        /\ ~MismatchedCheckpoint)
        => /\ Planned
           /\ blockSize = -1
           /\ ranges = <<[Begin |-> 0, End |-> fileSize]>>

\* C16: with a mode that is neither Default nor BlockSize, Execute on a
\* non-empty file never gets past its planning: it creates no worker, does
\* not run the monitor, and returns ErrUnknownRangeGenMode (unless the
\* checkpoint store failed before).
C16_UnknownModeFatal ==
    (configMode = "Unknown" /\ fileSize > 0)
        => /\ pc \in {"idle", "checkLoadBalancers", "initInstanceState",
                       "plan", "done"}
           /\ workers = <<>>
           /\ ~MonitorRan
           /\ Returned => ret \in {ErrUnknownRangeGenMode, ErrInitInstanceState}

\* C17: the cache size is min(config.CacheSize, blockSize) when the block
\* size is positive and config.CacheSize otherwise (the sentinel -1
\* included); it never exceeds config.CacheSize.
C17_CacheSize ==
    Planned
        => /\ cacheSize = IF blockSize > 0
                          THEN Min(configCacheSize, blockSize)
                          ELSE configCacheSize
           /\ cacheSize <= configCacheSize
C17_Witness ==
    /\ Planned
    /\ blockSize > 0
    /\ configCacheSize > blockSize
    /\ cacheSize = blockSize

\* ------------------------------------------------- the URL pool
\* checkLoadBalancers has returned its list.
PoolBuilt == pc = "initInstanceState"
\* The probe's answer as the pool's contract wants it: no error, a 2xx
\* status, the Content-Length of the file.
ProbeOk(probe) ==
    /\ ~probe.err
    /\ probe.statusClass = 2
    /\ probe.contentLength = fileSize
InPool(i) == \E j \in 1..Len(lbList) : lbList[j] = i

\* C18: an auxiliary URL is in the pool if and only if its probe returned no
\* error, a 2xx status and the file's Content-Length; the primary entry is
\* always in the pool, so the pool is never empty.
C18_AdmittedIffProbeOk ==
    PoolBuilt
        => /\ \A i \in 1..Len(loadBalansers) :
                  InPool(i) <=> ProbeOk(loadBalansers[i])
           /\ Len(lbList) >= 1
           /\ lbList[1] = 0

\* C19: at most 10 probes are in flight at any moment, and
\* checkLoadBalancers returns only after every started probe has finished.
C19_ProbeFanOut ==
    /\ InFlight <= ProbeFanOut
    /\ PoolBuilt => \A i \in 1..Len(probes) : probes[i].pc = "done"
C19_Witness ==
    /\ pc = "probeLoop"
    /\ InFlight = ProbeFanOut
    /\ probeNext <= Len(loadBalansers)

\* ------------------------------------------------- the shared writer
\* C20: all workers of one Execute call have the same write mutex, and at no
\* moment two of them are inside WriteAt on the shared writer.
C20_WriteAtExclusive ==
    /\ \A i, j \in 1..Len(workers) : workers[i].writeMu = workers[j].writeMu
    /\ Cardinality(writers) <= 1
C20_Witness ==
    /\ pc = "running"
    /\ Len(workers) >= 2
    /\ Cardinality(writers) = 1
    /\ Cardinality(WorkerIds \ workerDone) >= 2

\* ------------------------------------------------- Pause, Resume, Cancel twice
\* C21: Pause, Resume and Cancel are idempotent: a Pause() on a session that a
\* Pause() already paused fires no event and leaves the monitor as it is;
\* likewise a Resume() after a Resume() and a Cancel() after a Cancel().
C21_Idempotent ==
    [][/\ (Pause /\ userFired[EvPause] >= 1 /\ paused)
           => (userFired' = userFired /\ paused' = paused)
       /\ (Resume /\ userFired[EvResume] >= 1 /\ ~paused)
           => (userFired' = userFired /\ paused' = paused)
       /\ (Cancel /\ userFired[EvCancel] >= 1)
           => (userFired' = userFired /\ ctxCancelled' = ctxCancelled)]_vars

\* ------------------------------------------------- auxiliary accounts
\* An auxiliary account whose three lookups all succeeded.
ThreeLookupsOk(sub) == sub.info = "Ok" /\ sub.file = "Ok" /\ sub.url = "Ok"

RECURSIVE AccountsOk(_, _)
AccountsOk(subs, i) ==
    IF i > Len(subs) THEN <<>>
    ELSE (IF ThreeLookupsOk(subs[i]) THEN <<i>> ELSE <<>>)
         \o AccountsOk(subs, i + 1)

\* C22: when the main account's lookups pass, getFileSourceDownloadUrl returns,
\* whatever the auxiliary accounts answer, without error the list of the
\* primary URL followed, in the accounts' order, by one entry per auxiliary
\* account whose three lookups all succeeded.
C22_AuxiliaryNeverFatal ==
    (lastCall.called /\ lastCall.main = "Ok" /\ lastCall.info = "Ok")
    => /\ ~lastCall.result.panic
       /\ lastCall.result.err = NoErr
       /\ ~lastCall.result.isNil
       /\ lastCall.result.urls = <<0>> \o AccountsOk(lastCall.subs, 1)

\* ------------------------------------------------- the workers' URLs
\* C23: every range gets a worker that made one SequentialGet() call on the
\* pool, the k-th worker the k-th call, and the URL a worker downloads from is
\* the URL of the entry that call returned.
C23_WorkerUrlFromPool ==
    pc \in {"monitor", "running", "checkErr"}
    => /\ lbCalls = Len(ranges)
       /\ Len(workers) = Len(ranges)
       /\ \A i \in 1..Len(workers) :
              workers[i].url
                  = LoadBalancerUrl(SequentialGet(lbList, workers[i].id))

\* ------------------------------------------------- sharew
\* C24: whenever `sharew set` calls RunShareSet with mode 1 or 2, the drive ID
\* RunShareSet works on is the user's resource drive ID, whatever the active
\* drive and the --driveId flag.
C24_ShareOnResourceDrive ==
    (/\ lastCall.op = "set"
     /\ lastCall.called
     /\ lastCall.result.RunShareSet
     /\ lastCall.result.modeFlag \in {"1", "2"})
    => lastCall.result.driveId = ResourceDriveId

\* The records RunShareList labels as valid, in the list's order.
RECURSIVE ListedValid(_, _)
ListedValid(records, k) ==
    IF k > Len(records) THEN <<>>
    ELSE (IF ListStatus(records[k]) = StatusValid THEN <<k>> ELSE <<>>)
         \o ListedValid(records, k + 1)

\* C25: with option 1 RunShareExport writes a row for a record if and only if
\* RunShareList labels the record valid, and the rows are numbered 1, 2, ...
C25_ExportsWhatListCallsValid ==
    (/\ lastCall.op = "export"
     /\ lastCall.called
     /\ lastCall.result.request = "ShareLinkList"
     /\ lastCall.option \in {"", "1"})
    => LET rows == lastCall.result.rows
       IN  /\ [i \in 1..Len(rows) |-> rows[i].ShareId]
                  = ListedValid(lastCall.records, 1)
           /\ \A i \in 1..Len(rows) : rows[i].idx = i

\* ------------------------------------------------- the status callback
\* C26: the goroutine of downloadStatusEvent exists only when a status
\* callback is registered, and it invokes the callback only while the monitor
\* runs: not once the monitor has returned, and not after Finish was fired.
C26_StatusOnlyWhileRunning ==
    /\ (statusTask # "none" => onDownloadStatusEvent)
    /\ statusCalledIn \subseteq {"running"}

\* ------------------------------------------------- the probes' appends
\* The number of entries of the pool that are auxiliary URL i.
TimesInPool(i) == Cardinality({j \in 1..Len(lbList) : lbList[j] = i})

\* C27: whatever the order the probe goroutines run in, every auxiliary URL
\* that checkLoadBalancers admitted is in the pool exactly once, and the
\* pool's size is 1 plus the number of admitted URLs.
C27_AdmittedExactlyOnce ==
    PoolBuilt
        => /\ \A i \in 1..Len(loadBalansers) :
                  Admitted(loadBalansers[i]) => TimesInPool(i) = 1
           /\ Len(lbList)
                  = 1 + Cardinality({i \in 1..Len(loadBalansers) :
                                        Admitted(loadBalansers[i])})

C29_SuccessExcludesFail ==
    ~(Fired(EvSuccess) /\ (Fired(EvFail) \/ userFired[EvFail] >= 1))

\* C30: the monitor never runs for an empty file, so the branch of
\* ErrNoWokers with FileSize = 0 is never taken, and no session fires Success
\* and returns an error.
C30_EmptyFileNeverMonitored ==
    /\ pc \in {"monitor", "running", "checkErr"} => fileSize # 0
    /\ (Returned /\ Fired(EvSuccess)) => ret = NoErr

\* The monitor has ended with ErrNoWokers: the first half of the branch's test.
C30_Witness ==
    pc = "checkErr" /\ monitorErr = ErrNoWokers /\ fileSize # 0

\* ------------------------------------------------- calls before Execute
\* The fields of the Downloader and what it fired: every variable but the
\* record of the caller's calls.
DownloaderFields ==
    <<pc, ret, events, userFired, inputs, planVars, urlVars, monitorVars,
      probeVars, writeVars, statusVars, instanceState, monitor,
      monitorCancelFunc, lbList, lbCalls, workers, lastCall>>

\* C31: Pause, Resume, Cancel and Failed called while der.monitor is nil
\* (before the first Execute) fire no event and change no field of the
\* Downloader.
C31_NoOpBeforeExecute ==
    [][((Pause \/ Resume \/ Cancel \/ Failed) /\ ~monitor)
           => UNCHANGED DownloaderFields]_vars

\* A call was made on a Downloader that has no monitor yet.
C31_Witness == ~monitor /\ userCalls >= 1 /\ pc = "idle"

\* ------------------------------------------------- failed link creation
\* C32: when the link creation fails (an error with or without a result, or
\* no error and a nil result), in the fast-share and in the share branch,
\* RunShareSet prints a failure message and returns: it does not crash.
C32_CreateFailureReported ==
    (/\ lastCall.op = "set"
     /\ lastCall.called
     /\ lastCall.result.request \in {"FastShareLinkCreate", "ShareLinkCreate"}
     /\ (lastCall.created.err # "nil" \/ ~lastCall.created.r))
    => /\ ~lastCall.result.panic
       /\ lastCall.result.printed
              \in {"create failed: not allowed", "create failed"}

====
